---- MODULE Spec2Model ----
(***************************************************************************)
(* rulebook-monk: a markup-to-HTML pipeline.                               *)
(*   lexer (lex.go)      : a state machine over the input text that emits  *)
(*                         typed items into a buffered channel;            *)
(*   Build (builder.go)  : folds the items into a Document tree, then      *)
(*   Builder.Build       : walks the tree and appends HTML to a buffer.    *)
(* Text is modelled as a sequence of one-character strings, positions are  *)
(* Go's 0-based byte offsets (the inputs are ASCII, so a rune is a byte).  *)
(***************************************************************************)
EXTENDS Integers, Sequences, FiniteSets, TLC

VARIABLES
    src,        \* the text Build read from its input
    l,          \* the lexer
    asm,        \* Build's locals: chapter, sections, items, section
    heap,       \* the backing arrays of the []Chapter and []Section slices
    document,   \* Build's Document value
    b,          \* the Builder
    work,       \* the steps of Builder.Build's loops over the document, in order
    at,         \* the step of work the loops are at (1-based)
    pc,         \* where Build is: "lex", "build", "walk", "done"
    result,     \* how Build ended: "none", "ok", "lexerror", "ioerror", "panic"
    written,    \* what the output sink received
    recv        \* history: the items nextItem returned, in order

vars == <<src, l, asm, heap, document, b, work, at, pc, result, written, recv>>

(***************************************************************************)
(* Bounds of the model.                                                    *)
(***************************************************************************)
MaxFrags == 3
MaxOpen == 2
MaxLines == 5
MaxRows == 2
MaxCells == 2
MaxList == 4
MaxLex == 3
MaxHeads == 4

(***************************************************************************)
(* lex.go: constants.                                                      *)
(***************************************************************************)
newLine == <<"\n">>
chapter == <<"#">>
boldRune == "*"
emSymbol == <<"_", "_">>
section == <<"#", "#">>
table == <<"-", "t", "a", "b", "l", "e", "-">>
annex == <<"A", "N", "N", "E", "X">>
listElement == <<"\n", "-", " ">>
cmdStart == "\\"
eof == "eof"
ItemsCap == 3

(***************************************************************************)
(* Helpers of the Go standard library, as far as the program uses them.    *)
(***************************************************************************)
RECURSIVE Flatten(_)
Flatten(ss) == IF ss = <<>> THEN <<>> ELSE Head(ss) \o Flatten(Tail(ss))

IsSpace(c) == c \in {" ", "\n", "\t", "\r"}

RECURSIVE TrimLeft(_)
TrimLeft(s) == IF s # <<>> /\ IsSpace(Head(s)) THEN TrimLeft(Tail(s)) ELSE s

RECURSIVE TrimRight(_)
TrimRight(s) ==
    IF s # <<>> /\ IsSpace(s[Len(s)]) THEN TrimRight(SubSeq(s, 1, Len(s) - 1)) ELSE s

TrimSpace(s) == TrimRight(TrimLeft(s))

\* strings.Split(s, sep) for a one-character separator: always at least one part.
RECURSIVE SplitFrom(_, _, _)
SplitFrom(s, sep, cur) ==
    IF s = <<>> THEN <<cur>>
    ELSE IF Head(s) = sep THEN <<cur>> \o SplitFrom(Tail(s), sep, <<>>)
    ELSE SplitFrom(Tail(s), sep, Append(cur, Head(s)))

Split(s, sep) == SplitFrom(s, sep, <<>>)

\* strings.Replace(s, old, new, -1) for a one-character old.
RECURSIVE Replace(_, _, _)
Replace(s, old, new) ==
    IF s = <<>> THEN <<>>
    ELSE (IF Head(s) = old THEN new ELSE <<Head(s)>>) \o Replace(Tail(s), old, new)

RECURSIVE Join(_, _)
Join(ss, sep) ==
    IF ss = <<>> THEN <<>>
    ELSE IF Len(ss) = 1 THEN ss[1]
    ELSE ss[1] \o sep \o Join(Tail(ss), sep)

UpperCase == <<"A", "B", "C", "D", "E", "F", "G", "H", "I", "J", "K", "L", "M",
               "N", "O", "P", "Q", "R", "S", "T", "U", "V", "W", "X", "Y", "Z">>
LowerCase == <<"a", "b", "c", "d", "e", "f", "g", "h", "i", "j", "k", "l", "m",
               "n", "o", "p", "q", "r", "s", "t", "u", "v", "w", "x", "y", "z">>

ToLowerChar(c) ==
    IF \E i \in 1..26 : UpperCase[i] = c
    THEN LowerCase[CHOOSE i \in 1..26 : UpperCase[i] = c]
    ELSE c

ToLower(s) == [i \in 1..Len(s) |-> ToLowerChar(s[i])]

Digits == <<"0", "1", "2", "3", "4", "5", "6", "7", "8", "9">>

\* fmt's %v of a non-negative int.
RECURSIVE Itoa(_)
Itoa(n) == IF n < 10 THEN <<Digits[n + 1]>> ELSE Itoa(n \div 10) \o <<Digits[(n % 10) + 1]>>

(***************************************************************************)
(* fmt.Sprintf(s) with no operands: "%%" prints "%", any other verb has no *)
(* operand ("%!c(MISSING)"), a "%" ending the format has no verb.          *)
(***************************************************************************)
RECURSIVE SprintfNoArgs(_)
SprintfNoArgs(s) ==
    IF s = <<>> THEN <<>>
    ELSE IF Head(s) # "%" THEN <<Head(s)>> \o SprintfNoArgs(Tail(s))
    ELSE IF Len(s) = 1 THEN <<"%", "!", "(", "N", "O", "V", "E", "R", "B", ")">>
    ELSE IF s[2] = "%" THEN <<"%">> \o SprintfNoArgs(Tail(Tail(s)))
    ELSE <<"%", "!", s[2], "(", "M", "I", "S", "S", "I", "N", "G", ")">>
         \o SprintfNoArgs(Tail(Tail(s)))

(***************************************************************************)
(* lex.go: the lexer.  A lexer value is a record                           *)
(*   input, start, pos, width, line : as in the struct;                    *)
(*   items   : the buffered channel (capacity 3), oldest item first;       *)
(*   state   : the state function to run next: f names the function, fn    *)
(*             the state a sub-lexer returns to, arg the cmd or text a     *)
(*             closure captured; f = "nil" is the nil stateFn;             *)
(*   inLoop  : control is inside state's for loop (past its preamble);     *)
(*   blocked : a send found the channel full: with one goroutine the send  *)
(*             never completes, nothing after it runs;                     *)
(*   seen    : history: the <<pos, line>> pairs that next(), backup() and   *)
(*             the direct "l.pos += n" jumps have left behind.             *)
(***************************************************************************)
Item(t, v, ln) == [typ |-> t, val |-> v, line |-> ln]

StateFn(f, fn, arg) == [f |-> f, fn |-> fn, arg |-> arg]

Plain(f) == StateFn(f, "", <<>>)

nilState == Plain("nil")

lex(input) ==
    [input |-> input, start |-> 0, pos |-> 0, width |-> 0, line |-> 1,
     items |-> <<>>, state |-> Plain("lexText"), inLoop |-> FALSE, blocked |-> FALSE,
     seen |-> {}]

\* a send into a channel made one slot smaller
SendIntoSmaller(lx, it) ==
    IF lx.blocked THEN lx
    ELSE IF Len(lx.items) >= ItemsCap - 1 THEN [lx EXCEPT !.blocked = TRUE]
    ELSE [lx EXCEPT !.items = Append(@, it)]

\* l.items <- it
Send(lx, it) ==
    IF lx.blocked THEN lx
    ELSE IF Len(lx.items) >= ItemsCap THEN [lx EXCEPT !.blocked = TRUE]
    ELSE [lx EXCEPT !.items = Append(@, it)]

Slice(lx) == SubSeq(lx.input, lx.start + 1, lx.pos)

emit(lx, t) ==
    IF lx.blocked THEN lx
    ELSE LET s == Send(lx, Item(t, Slice(lx), lx.line))
         IN  IF s.blocked THEN s ELSE [s EXCEPT !.start = lx.pos]

emitCustom(lx, t, data) == Send(lx, Item(t, data, lx.line))

emitTrim(lx, t) ==
    IF lx.blocked THEN lx
    ELSE LET s == Send(lx, Item(t, TrimSpace(Slice(lx)), lx.line))
         IN  IF s.blocked THEN s ELSE [s EXCEPT !.start = lx.pos]

ignore(lx) == IF lx.blocked THEN lx ELSE [lx EXCEPT !.start = lx.pos]

\* records the position and line an operation leaves behind
Seen(lx) == [lx EXCEPT !.seen = @ \cup {<<lx.pos, lx.line>>}]

\* backup() without its "l.line--"
backupKeepsLine(lx) ==
    IF lx.blocked THEN lx ELSE Seen([lx EXCEPT !.pos = @ - lx.width])

backup(lx) ==
    IF lx.blocked THEN lx
    ELSE LET p == lx.pos - lx.width
         IN  Seen([lx EXCEPT !.pos = p,
                             !.line = IF p < Len(lx.input) /\ lx.input[p + 1] = "\n"
                                      THEN @ - 1 ELSE @])

\* the rune next() returns
nextRune(lx) == IF lx.pos >= Len(lx.input) THEN eof ELSE lx.input[lx.pos + 1]

\* the effect of next() on the lexer
next(lx) ==
    IF lx.blocked THEN lx
    ELSE IF lx.pos >= Len(lx.input) THEN Seen([lx EXCEPT !.width = 0])
    ELSE Seen([lx EXCEPT !.width = 1, !.pos = @ + 1,
                         !.line = IF lx.input[lx.pos + 1] = "\n" THEN @ + 1 ELSE @])

\* peek(): next() then backup()
peek(lx) == backup(next(lx))

\* l.pos += n
Jump(lx, n) == IF lx.blocked THEN lx ELSE Seen([lx EXCEPT !.pos = @ + n])

\* strings.HasPrefix(l.input[l.pos:], pat)
HasPrefix(lx, pat) ==
    /\ lx.pos + Len(pat) <= Len(lx.input)
    /\ SubSeq(lx.input, lx.pos + 1, lx.pos + Len(pat)) = pat

\* "if l.pos > l.start { l.emit(itemText) }"
FlushText(lx) == IF lx.pos > lx.start THEN emit(lx, "Text") ELSE lx

\* "if l.pos > l.start { l.backup(); l.emit(itemText); l.next() }" after a next()
FlushBefore(lx) == IF lx.pos > lx.start THEN next(emit(backup(lx), "Text")) ELSE lx

\* the state function returns st / goes round its loop again
Return(lx, st) == IF lx.blocked THEN lx ELSE [lx EXCEPT !.state = st, !.inLoop = FALSE]

Again(lx) == IF lx.blocked THEN lx ELSE [lx EXCEPT !.inLoop = TRUE]

(***************************************************************************)
(* lex.go: the state functions.  Each operator is one pass through the     *)
(* function's for loop (with the closure's preamble when the function is   *)
(* entered): it either returns the next state or goes round again.         *)
(***************************************************************************)
Sub(f, fn) == StateFn(f, fn, <<>>)

lexText(lx) ==
    IF HasPrefix(lx, section)
    THEN Return(ignore(next(next(FlushText(lx)))), Plain("lexSection"))
    ELSE IF HasPrefix(lx, table)
    THEN Return(FlushText(lx), Sub("lexTableTitle", "lexText"))
    ELSE IF HasPrefix(lx, annex)
    THEN Return(ignore(Jump(FlushText(lx), 5)), Plain("lexAnnex"))
    ELSE IF HasPrefix(lx, chapter)
    THEN Return(ignore(next(FlushText(lx))), Plain("lexChapter"))
    ELSE IF HasPrefix(lx, listElement)
    THEN Return(emit(emitTrim(ignore(next(next(next(FlushText(lx))))), "ListOpen"),
                     "StartListElement"),
                Plain("lexListItem"))
    ELSE IF HasPrefix(lx, newLine)
    THEN Return(ignore(next(emitTrim(FlushText(lx), "NewLine"))), Plain("lexText"))
    ELSE IF HasPrefix(lx, emSymbol)
    THEN Return(next(next(FlushText(lx))), Sub("lexEm", "lexText"))
    ELSE LET r == nextRune(lx)
             n == next(lx)
         IN  IF r = cmdStart THEN Return(FlushBefore(n), Sub("lexCmdName", "lexText"))
             ELSE IF r = boldRune THEN Return(FlushBefore(n), Sub("lexBold", "lexText"))
             ELSE IF r = "[" THEN Return(FlushBefore(n), Sub("lexLinkHead", "lexText"))
             ELSE IF r = eof
             THEN Return(emit(IF n.pos > n.start THEN emitTrim(n, "Text") ELSE n, "EOF"),
                         nilState)
             ELSE Again(n)

\* lexChapter, lexSection and lexAnnex differ only in the item they emit.
lexHeading(lx, t) ==
    IF HasPrefix(lx, newLine) THEN Return(emitTrim(lx, t), Plain("lexText"))
    ELSE IF nextRune(lx) = eof THEN Return(backup(next(lx)), Plain("lexText"))
    ELSE Again(next(lx))

lexChapter(lx) == lexHeading(lx, "Chapter")

lexSection(lx) == lexHeading(lx, "Section")

lexAnnex(lx) == lexHeading(lx, "Annex")

\* lexListItem closing the list when the input ends inside an item
lexListItemClosesAtEnd(lx) ==
    IF HasPrefix(lx, listElement)
    THEN Return(emit(emit(ignore(next(next(next(FlushText(lx))))), "EndListElement"),
                     "StartListElement"),
                Plain("lexListItem"))
    ELSE IF HasPrefix(lx, newLine)
    THEN Return(emitTrim(emitTrim(FlushText(lx), "EndListElement"), "ListClose"),
                Plain("lexText"))
    ELSE IF HasPrefix(lx, emSymbol)
    THEN Return(next(next(FlushText(lx))), Sub("lexEm", "lexListItem"))
    ELSE LET r == nextRune(lx)
             n == next(lx)
         IN  IF r = boldRune THEN Return(FlushBefore(n), Sub("lexBold", "lexListItem"))
             ELSE IF r = eof
             THEN Return(emitTrim(emitTrim(FlushText(backup(n)), "EndListElement"),
                                  "ListClose"),
                         Plain("lexText"))
             ELSE Again(n)

\* lexListItem starting the sibling item without ending the one before
lexListItemNoEnd(lx) ==
    IF HasPrefix(lx, listElement)
    THEN Return(emit(ignore(next(next(next(FlushText(lx))))), "StartListElement"),
                Plain("lexListItem"))
    ELSE IF HasPrefix(lx, newLine)
    THEN Return(emitTrim(emitTrim(FlushText(lx), "EndListElement"), "ListClose"),
                Plain("lexText"))
    ELSE IF HasPrefix(lx, emSymbol)
    THEN Return(next(next(FlushText(lx))), Sub("lexEm", "lexListItem"))
    ELSE LET r == nextRune(lx)
             n == next(lx)
         IN  IF r = boldRune THEN Return(FlushBefore(n), Sub("lexBold", "lexListItem"))
             ELSE IF r = eof THEN Return(backup(n), Plain("lexText"))
             ELSE Again(n)

lexListItem(lx) ==
    IF HasPrefix(lx, listElement)
    THEN Return(emit(emit(ignore(next(next(next(FlushText(lx))))), "EndListElement"),
                     "StartListElement"),
                Plain("lexListItem"))
    ELSE IF HasPrefix(lx, newLine)
    THEN Return(emitTrim(emitTrim(FlushText(lx), "EndListElement"), "ListClose"),
                Plain("lexText"))
    ELSE IF HasPrefix(lx, emSymbol)
    THEN Return(next(next(FlushText(lx))), Sub("lexEm", "lexListItem"))
    ELSE LET r == nextRune(lx)
             n == next(lx)
         IN  IF r = boldRune THEN Return(FlushBefore(n), Sub("lexBold", "lexListItem"))
             ELSE IF r = eof THEN Return(backup(n), Plain("lexText"))
             ELSE Again(n)

\* the closure's "l.ignore()" before its loop
Enter(lx) == IF lx.inLoop THEN lx ELSE ignore(lx)

lexBold(lx) ==
    LET e == Enter(lx)
        r == nextRune(e)
        n == next(e)
    IN  IF r = boldRune
        THEN Return(ignore(next(emit(backup(n), "Bold"))), Plain(lx.state.fn))
        ELSE Again(n)

lexEm(lx) ==
    LET e == Enter(lx)
    IN  IF HasPrefix(e, emSymbol)
        THEN Return(ignore(next(next(emit(e, "Em")))), Plain(lx.state.fn))
        ELSE Again(next(e))

lexTableTitle(lx) ==
    LET e == IF lx.inLoop THEN lx ELSE ignore(Jump(lx, Len(table)))
        r == nextRune(e)
        n == next(e)
    IN  IF r = newLine[1]
        THEN Return(emitTrim(n, "TableStart"), Sub("lexTable", lx.state.fn))
        ELSE Again(n)

lexTable(lx) ==
    IF HasPrefix(lx, table)
    THEN Return(ignore(Jump(emit(lx, "TableEnd"), Len(table))), Plain(lx.state.fn))
    ELSE LET r == nextRune(lx)
             n == next(lx)
         IN  IF r = newLine[1]
             THEN Return(emitTrim(n, "TableRow"), Sub("lexTable", lx.state.fn))
             ELSE Again(n)

lexCmdName(lx) ==
    LET e == Enter(lx)
        r == nextRune(e)
        n == next(e)
    IN  IF r = "("
        THEN Return(ignore(n),
                    StateFn("lexCmdArgs", lx.state.fn, SubSeq(n.input, n.start + 1, n.pos - 1)))
        ELSE Again(n)

\* lexCmdArgs and lexLinkTail: scan to ")" and emit "<captured>|<scanned>".
lexTail(lx, t) ==
    LET r == nextRune(lx)
        n == next(lx)
        k == backup(n)
    IN  IF r = ")"
        THEN Return(ignore(next(emitCustom(k, t, lx.state.arg \o <<"|">> \o Slice(k)))),
                    Plain(lx.state.fn))
        ELSE Again(n)

lexCmdArgs(lx) == lexTail(lx, "Command")

lexLinkHead(lx) ==
    LET e == Enter(lx)
        r == nextRune(e)
        n == next(e)
    IN  IF r = "]"
        THEN Return(ignore(next(n)),
                    StateFn("lexLinkTail", lx.state.fn, SubSeq(n.input, n.start + 1, n.pos - 1)))
        ELSE Again(n)

lexLinkTail(lx) == lexTail(lx, "Link")

\* l.state(l), one pass
RunState(lx) ==
    CASE lx.state.f = "lexText" -> lexText(lx)
      [] lx.state.f = "lexChapter" -> lexChapter(lx)
      [] lx.state.f = "lexSection" -> lexSection(lx)
      [] lx.state.f = "lexAnnex" -> lexAnnex(lx)
      [] lx.state.f = "lexListItem" -> lexListItem(lx)
      [] lx.state.f = "lexBold" -> lexBold(lx)
      [] lx.state.f = "lexEm" -> lexEm(lx)
      [] lx.state.f = "lexTableTitle" -> lexTableTitle(lx)
      [] lx.state.f = "lexTable" -> lexTable(lx)
      [] lx.state.f = "lexCmdName" -> lexCmdName(lx)
      [] lx.state.f = "lexCmdArgs" -> lexCmdArgs(lx)
      [] lx.state.f = "lexLinkHead" -> lexLinkHead(lx)
      [] lx.state.f = "lexLinkTail" -> lexLinkTail(lx)

(***************************************************************************)
(* roman.go                                                                *)
(***************************************************************************)
maxTable == <<1000, 900, 500, 400, 100, 90, 50, 40, 10, 9, 5, 4, 1>>

numInv(v) ==
    CASE v = 1000 -> "M" [] v = 900 -> "CM" [] v = 500 -> "D" [] v = 400 -> "CD"
      [] v = 100 -> "C" [] v = 90 -> "XC" [] v = 50 -> "L" [] v = 40 -> "XL"
      [] v = 10 -> "X" [] v = 9 -> "IX" [] v = 5 -> "V" [] v = 4 -> "IV" [] v = 1 -> "I"

highestDecimal(n) ==
    IF \E i \in 1..Len(maxTable) : maxTable[i] <= n
    THEN maxTable[CHOOSE i \in 1..Len(maxTable) :
                    /\ maxTable[i] <= n
                    /\ \A j \in 1..(i - 1) : maxTable[j] > n]
    ELSE 1

RECURSIVE toRoman(_)
toRoman(n) ==
    IF n > 0 THEN <<numInv(highestDecimal(n))>> \o toRoman(n - highestDecimal(n)) ELSE <<>>

(***************************************************************************)
(* builder.go: the Document and Build's fold of the items into it.         *)
(* A []Chapter or []Section value is a slice header [arr, len, cap] over a *)
(* backing array heap[arr] (arr = 0: none); append writes in place while   *)
(* len < cap and otherwise moves the elements to a new array of twice the  *)
(* capacity.  A Chapter and a Section are both [Title, Items, Sections]    *)
(* (a Section's Sections stays empty); []item values are kept by value.    *)
(* A pointer is the [arr, idx] of the struct it points into; [0, 0] is the *)
(* Document itself for sections and items, nil for chapter and section.    *)
(***************************************************************************)
NilSlice == [arr |-> 0, len |-> 0, cap |-> 0]

Struct(title, items) == [Title |-> title, Items |-> items, Sections |-> NilSlice]

Ptr(a, i) == [arr |-> a, idx |-> i]

nil == Ptr(0, 0)

Elems(h, sl) == IF sl.len = 0 THEN <<>> ELSE SubSeq(h[sl.arr], 1, sl.len)

\* append(sl, e): the heap and the slice header after it
AppendSlice(h, sl, e) ==
    IF sl.len < sl.cap
    THEN [heap |-> [h EXCEPT ![sl.arr][sl.len + 1] = e],
          slice |-> [sl EXCEPT !.len = @ + 1]]
    ELSE LET newcap == IF sl.cap = 0 THEN 1 ELSE 2 * sl.cap
             arr == Elems(h, sl) \o <<e>>
                    \o [i \in 1..(newcap - sl.len - 1) |-> Struct(<<>>, <<>>)]
         IN  [heap |-> Append(h, arr),
              slice |-> [arr |-> Len(h) + 1, len |-> sl.len + 1, cap |-> newcap]]

\* &sl[len(sl)-1]
LastPtr(sl) == Ptr(sl.arr, sl.len)

NewDocument ==
    [Items |-> <<>>, Sections |-> NilSlice, Chapters |-> NilSlice, Annexes |-> NilSlice]

NewAsm == [chapter |-> nil, sections |-> nil, items |-> nil, section |-> nil]

\* case itemChapter without "items = &chapter.Items"
AsmChapterKeepsItems(a, h, d, it) ==
    LET r == AppendSlice(h, d.Chapters, Struct(<<>>, <<>>))
        p == LastPtr(r.slice)
    IN  [asm |-> [chapter |-> p, sections |-> p, items |-> a.items, section |-> nil],
         heap |-> [r.heap EXCEPT ![p.arr][p.idx].Title = it.val],
         document |-> [d EXCEPT !.Chapters = r.slice]]

\* case itemChapter
AsmChapter(a, h, d, it) ==
    LET r == AppendSlice(h, d.Chapters, Struct(<<>>, <<>>))
        p == LastPtr(r.slice)
    IN  [asm |-> [chapter |-> p, sections |-> p, items |-> p, section |-> nil],
         heap |-> [r.heap EXCEPT ![p.arr][p.idx].Title = it.val],
         document |-> [d EXCEPT !.Chapters = r.slice]]

\* case itemAnnex
AsmAnnex(a, h, d, it) ==
    LET r == AppendSlice(h, d.Annexes, Struct(it.val, <<>>))
    IN  [asm |-> [a EXCEPT !.chapter = nil, !.items = LastPtr(r.slice)],
         heap |-> r.heap,
         document |-> [d EXCEPT !.Annexes = r.slice]]

\* case itemSection
AsmSection(a, h, d, it) ==
    LET sl == IF a.sections = nil THEN d.Sections
              ELSE h[a.sections.arr][a.sections.idx].Sections
        r == AppendSlice(h, sl, Struct(<<>>, <<>>))
        p == LastPtr(r.slice)
        h1 == IF a.sections = nil THEN r.heap
              ELSE [r.heap EXCEPT ![a.sections.arr][a.sections.idx].Sections = r.slice]
    IN  [asm |-> [a EXCEPT !.section = p, !.items = p],
         heap |-> [h1 EXCEPT ![p.arr][p.idx].Title = it.val],
         document |-> IF a.sections = nil THEN [d EXCEPT !.Sections = r.slice] ELSE d]

\* default: *items = append(*items, it)
AsmDefault(a, h, d, it) ==
    [asm |-> a,
     heap |-> IF a.items = nil THEN h
              ELSE [h EXCEPT ![a.items.arr][a.items.idx].Items = Append(@, it)],
     document |-> IF a.items = nil THEN [d EXCEPT !.Items = Append(@, it)] ELSE d]

\* the switch of Build's loop
AsmItem(a, h, d, it) ==
    CASE it.typ = "Chapter" -> AsmChapter(a, h, d, it)
      [] it.typ = "Annex" -> AsmAnnex(a, h, d, it)
      [] it.typ = "Section" -> AsmSection(a, h, d, it)
      [] OTHER -> AsmDefault(a, h, d, it)

(***************************************************************************)
(* builder.go: the Builder.  content is the sequence of the strings the    *)
(* append calls wrote: each is [fmt, args, by], the format string, its     *)
(* operands as printed, and the item type or function that appended it    *)
(* (fmt "it.val": the item's text was itself the format, args is what it   *)
(* printed).                                                               *)
(* panicked is set when an index expression is out of range: the panic     *)
(* leaves Build, nothing after it runs.                                    *)
(***************************************************************************)
NewBuilder(config) ==
    [Config |-> config, err |-> "nil", content |-> <<>>, paragraphIsOpen |-> FALSE,
     newSection |-> FALSE, tableRowIndex |-> 0, tableTitle |-> <<>>, panicked |-> FALSE]

Out(f, args, by) == [fmt |-> f, args |-> args, by |-> by]

append(bb, f, args, by) ==
    IF bb.panicked \/ bb.err # "nil" THEN bb
    ELSE [bb EXCEPT !.content = Append(@, Out(f, args, by))]

Panic(bb) == [bb EXCEPT !.panicked = TRUE]

\* closeParagraph without its "if b.paragraphIsOpen"
closeParagraphAlways(bb) ==
    IF bb.panicked THEN bb
    ELSE append([bb EXCEPT !.paragraphIsOpen = FALSE], "\n</p>\n", <<>>, "closeParagraph")

closeParagraph(bb) ==
    IF bb.paragraphIsOpen /\ ~bb.panicked
    THEN append([bb EXCEPT !.paragraphIsOpen = FALSE], "\n</p>\n", <<>>, "closeParagraph")
    ELSE bb

openParagraph(bb) ==
    IF bb.panicked THEN bb
    ELSE IF ~bb.paragraphIsOpen /\ bb.newSection
    THEN append([bb EXCEPT !.paragraphIsOpen = TRUE, !.newSection = FALSE],
                "<p class='indent'>\n", <<>>, "openParagraph")
    ELSE IF ~bb.paragraphIsOpen
    THEN append([bb EXCEPT !.paragraphIsOpen = TRUE], "<p>\n", <<>>, "openParagraph")
    ELSE bb

anchorName(s) == Replace(ToLower(s), " ", <<"-">>)

annexAnchorName(s) == <<"annex-">> \o anchorName(s)

\* string(n + 65)
toAnnex(n) == IF n < 26 THEN <<UpperCase[n + 1]>> ELSE <<"?">>

\* case "img"; args[0] always exists, args[1] and size[0] need not
handleImg(bb, args) ==
    LET c == closeParagraph(bb)
        position == IF Len(args) > 2 THEN TrimSpace(args[3]) ELSE <<>>
        classNames == <<"illustration">>
                      \o (IF position = <<"l", "e", "f", "t">> THEN <<"float-left">>
                          ELSE IF position = <<"r", "i", "g", "h", "t">> THEN <<"float-right">>
                          ELSE <<>>)
        hasSize == Len(args) > 3
        size == IF hasSize THEN TrimSpace(args[4]) ELSE <<>>
        width == IF hasSize /\ size # <<>> /\ size[1] = "w" THEN Tail(size) ELSE <<>>
        height == IF hasSize /\ size # <<>> /\ size[1] # "w" /\ size[1] = "h"
                  THEN Tail(size) ELSE <<>>
        class == Join([i \in 1..Len(classNames) |-> <<classNames[i]>>], <<" ">>)
    IN  IF hasSize /\ size = <<>> THEN Panic(c)
        ELSE IF Len(args) < 2 THEN Panic(c)
        ELSE IF width # <<>>
        THEN append(c, "<img class='%s' src='%s' alt='%s' width='%s'/>",
                    <<class, args[1], TrimSpace(args[2]), width>>, "Command")
        ELSE IF height # <<>>
        THEN append(c, "<img class='%s' src='%s' alt='%s' height='%s'/>",
                    <<class, args[1], TrimSpace(args[2]), height>>, "Command")
        ELSE append(c, "<img class='%s' src='%s' alt='%s' />",
                    <<class, args[1], TrimSpace(args[2])>>, "Command")

handleCommand(bb, name, args) ==
    IF name = <<"c", "o", "l", "o", "r">>
    THEN IF Len(args) < 2 THEN Panic(bb)
         ELSE append(bb, "<span style='color: #%s'>%s</span>",
                     <<TrimSpace(args[2]), TrimSpace(args[1])>>, "Command")
    ELSE IF name = <<"i", "m", "g">> THEN handleImg(bb, args)
    ELSE bb

RECURSIVE AppendCells(_, _, _)
AppendCells(bb, cells, i) ==
    IF i > Len(cells) THEN bb
    ELSE AppendCells(
            IF bb.tableRowIndex = 0
            THEN append(bb, "<td class='head'>%s</td>\n", <<cells[i]>>, "TableRow")
            ELSE append(bb, "<td class='lead'>%s</td>\n", <<cells[i]>>, "TableRow"),
            cells, i + 1)

\* itemTableRow with the header block for every row of index <= 0
handleTableRowTwice(bb, it) ==
    LET cells == Split(it.val, "|")
        h0 == append(bb, "<thead>\n", <<>>, "TableRow")
        h1 == append(h0, "<tr>\n", <<>>, "TableRow")
        h2 == append(h1, "<th colspan='%v'>%s</th>\n", <<Itoa(Len(cells)), bb.tableTitle>>,
                     "TableRow")
        h3 == append(h2, "</tr>\n", <<>>, "TableRow")
        h4 == append(h3, "</thead>\n", <<>>, "TableRow")
        h5 == append(h4, "<tbody>\n", <<>>, "TableRow")
        hd == IF bb.tableRowIndex <= 0 THEN h5 ELSE bb
        r0 == [hd EXCEPT !.tableRowIndex = @ + 1]
        r1 == append(r0, "<tr>\n", <<>>, "TableRow")
        r2 == append(r1, "<td class='head'>%s</td>\n", <<cells[1]>>, "TableRow")
        r3 == AppendCells(r2, cells, 2)
    IN  append(r3, "</tr>\n", <<>>, "TableRow")

\* else if it.typ == itemTableRow
handleTableRow(bb, it) ==
    LET cells == Split(it.val, "|")
        h0 == append(bb, "<thead>\n", <<>>, "TableRow")
        h1 == append(h0, "<tr>\n", <<>>, "TableRow")
        h2 == append(h1, "<th colspan='%v'>%s</th>\n", <<Itoa(Len(cells)), bb.tableTitle>>,
                     "TableRow")
        h3 == append(h2, "</tr>\n", <<>>, "TableRow")
        h4 == append(h3, "</thead>\n", <<>>, "TableRow")
        h5 == append(h4, "<tbody>\n", <<>>, "TableRow")
        hd == IF bb.tableRowIndex = -1 THEN h5 ELSE bb
        r0 == [hd EXCEPT !.tableRowIndex = @ + 1]
        r1 == append(r0, "<tr>\n", <<>>, "TableRow")
        r2 == append(r1, "<td class='head'>%s</td>\n", <<cells[1]>>, "TableRow")
        r3 == AppendCells(r2, cells, 2)
    IN  append(r3, "</tr>\n", <<>>, "TableRow")

handleItem(bb, it) ==
    IF it.typ = "NewLine" THEN closeParagraph(bb)
    ELSE IF it.typ = "ListOpen"
    THEN append(closeParagraph(bb), "<ol class='roman'>\n", <<>>, "ListOpen")
    ELSE IF it.typ = "ListClose" THEN append(bb, "</ol>\n\n", <<>>, "ListClose")
    ELSE IF it.typ = "StartListElement"
    THEN openParagraph(append(bb, "\n<li>\n", <<>>, "StartListElement"))
    ELSE IF it.typ = "EndListElement"
    THEN append(closeParagraph(bb), "\n</li>\n", <<>>, "EndListElement")
    ELSE IF it.typ = "Bold"
    THEN append(openParagraph(bb), "<strong>%s</strong>", <<it.val>>, "Bold")
    ELSE IF it.typ = "Command"
    THEN LET info == Split(it.val, "|")
         IN  handleCommand(bb, info[1], Split(info[2], ","))
    ELSE IF it.typ = "Link"
    THEN LET info == Split(it.val, "|")
         IN  append(openParagraph(bb), "<a href='#%s'>%s</a>",
                    <<anchorName(info[2]), info[1]>>, "Link")
    ELSE IF it.typ = "Em"
    THEN append(openParagraph(bb), "<em>%s</em>", <<it.val>>, "Em")
    ELSE IF it.typ = "TableStart"
    THEN append([closeParagraph(bb) EXCEPT !.tableRowIndex = -1, !.tableTitle = it.val],
                "<table>\n", <<>>, "TableStart")
    ELSE IF it.typ = "TableRow" THEN handleTableRow(bb, it)
    ELSE IF it.typ = "TableEnd"
    THEN append(append(bb, "</tbody>\n", <<>>, "TableEnd"), "</table>\n", <<>>, "TableEnd")
    ELSE IF it.val # <<>>
    THEN append(openParagraph(bb), "it.val", <<SprintfNoArgs(it.val)>>, it.typ)
    ELSE bb

(***************************************************************************)
(* Builder.Build: the order in which its loops visit the document, as a    *)
(* list of steps: a section's heading ("h3"), a chapter's ("h2", idx its   *)
(* 0-based index), an annex's opening and closing, and handleItem calls.   *)
(***************************************************************************)
Step(op, idx, title, it) == [op |-> op, idx |-> idx, title |-> title, it |-> it]

NoItem == Item("", <<>>, 0)

ItemSteps(items) == [i \in 1..Len(items) |-> Step("item", 0, <<>>, items[i])]

SectionSteps(sec) == <<Step("h3", 0, sec.Title, NoItem)>> \o ItemSteps(sec.Items)

SectionsSteps(h, sl) ==
    Flatten([i \in 1..sl.len |-> SectionSteps(Elems(h, sl)[i])])

ChapterSteps(h, ch, idx) ==
    <<Step("h2", idx, ch.Title, NoItem)>> \o ItemSteps(ch.Items)
    \o SectionsSteps(h, ch.Sections)

AnnexSteps(an, idx) ==
    <<Step("annexOpen", idx, an.Title, NoItem)>> \o ItemSteps(an.Items)
    \o <<Step("annexClose", idx, <<>>, NoItem)>>

\* Builder.Build with the annex loop before the chapter loop
WalkAnnexesFirst(h, d) ==
    SectionsSteps(h, d.Sections)
    \o Flatten([i \in 1..d.Annexes.len |-> AnnexSteps(Elems(h, d.Annexes)[i], i - 1)])
    \o Flatten([i \in 1..d.Chapters.len |-> ChapterSteps(h, Elems(h, d.Chapters)[i], i - 1)])

Walk(h, d) ==
    SectionsSteps(h, d.Sections)
    \o Flatten([i \in 1..d.Chapters.len |-> ChapterSteps(h, Elems(h, d.Chapters)[i], i - 1)])
    \o Flatten([i \in 1..d.Annexes.len |-> AnnexSteps(Elems(h, d.Annexes)[i], i - 1)])

RECURSIVE TocSections(_, _, _)
TocSections(bb, secs, i) ==
    IF i > Len(secs) THEN bb
    ELSE TocSections(append(bb, "<li><a href='#%s'>%s</a></li>\n",
                            <<anchorName(secs[i].Title), secs[i].Title>>, "toc"),
                     secs, i + 1)

RECURSIVE TocChapters(_, _, _, _)
TocChapters(bb, h, chs, i) ==
    IF i > Len(chs) THEN bb
    ELSE LET c0 == append(bb, "<li><strong>%s</strong> - <a href='#%s'>%s</a></li>\n",
                          <<toRoman(i - 1), anchorName(chs[i].Title), chs[i].Title>>, "toc")
             c1 == append(c0, "<ol class='roman'>\n", <<>>, "toc")
             c2 == TocSections(c1, Elems(h, chs[i].Sections), 1)
         IN  TocChapters(append(c2, "</ol>\n", <<>>, "toc"), h, chs, i + 1)

RECURSIVE TocAnnexes(_, _, _)
TocAnnexes(bb, ans, i) ==
    IF i > Len(ans) THEN bb
    ELSE TocAnnexes(append(bb, "<li><strong>Annexe %s</strong>: <a href='#%s'>%s</a></li>\n",
                           <<toAnnex(i - 1), annexAnchorName(ans[i].Title), ans[i].Title>>,
                           "toc"),
                    ans, i + 1)

buildTableOfContents(bb, h, d) ==
    LET t0 == append(bb, "<div id='summary'>\n<h3>Table des matieres</h3>\n", <<>>, "toc")
        t1 == append(t0, "<ol>\n", <<>>, "toc")
        t2 == TocSections(t1, Elems(h, d.Sections), 1)
        t3 == append(append(t2, "</ol>\n", <<>>, "toc"), "<ol>\n", <<>>, "toc")
        t4 == TocChapters(t3, h, Elems(h, d.Chapters), 1)
        t5 == append(append(t4, "</ol>\n", <<>>, "toc"), "<ol>\n", <<>>, "toc")
        t6 == TocAnnexes(t5, Elems(h, d.Annexes), 1)
    IN  append(append(t6, "</ol>\n", <<>>, "toc"), "</div>\n", <<>>, "toc")

\* Builder.Build up to its loops
BuildHead(bb, h, d) ==
    LET r == [bb EXCEPT !.content = <<>>, !.paragraphIsOpen = FALSE]
    IN  IF r.Config.TableOfContents THEN buildTableOfContents(r, h, d) ELSE r

\* one step of Builder.Build's loops
BuildStep(bb, st) ==
    CASE st.op = "h3" ->
            append([bb EXCEPT !.newSection = TRUE], "<h3><a name='%s'></a>%s</h3>\n",
                   <<anchorName(st.title), st.title>>, "h3")
      [] st.op = "h2" ->
            append([bb EXCEPT !.newSection = TRUE], "<h2><a id='%s'></a>%s - %s</h2>\n",
                   <<anchorName(st.title), toRoman(st.idx), st.title>>, "h2")
      [] st.op = "annexOpen" ->
            [append(append(bb, "<div class='annex'>\n", <<>>, "annex"),
                    "<h2><a name='%s'></a>Annexe %v: %s</h2>\n",
                    <<annexAnchorName(st.title), toAnnex(st.idx), st.title>>, "annex")
             EXCEPT !.newSection = TRUE]
      [] st.op = "annexClose" -> append(bb, "</div>\n", <<>>, "annex")
      [] st.op = "item" -> handleItem(bb, st.it)

(***************************************************************************)
(* The inputs: texts made of at most MaxFrags fragments of the markup.     *)
(***************************************************************************)
SeqsUpTo(S, n) == UNION {[1..k -> S] : k \in 0..n}

Texts(F, n) == {Flatten(fs) : fs \in SeqsUpTo(F, n)}

ChapterLine == <<"#", "T", "\n">>
SectionLine == <<"#", "#", "S", "\n">>
AnnexLine == <<"A", "N", "N", "E", "X", "A", "\n">>
ListMark == <<"\n", "-", " ">>
BoldWord == <<"*", "b", "*">>
ColorOne == <<"\\", "c", "o", "l", "o", "r", "(", "r", ")">>
Intro == <<"#", "I", "n", "t", "r", "o", "\n", "H", "e", "l", "l", "o", " ",
           "*", "w", "o", "r", "l", "d", "*", ".", "\n">>

Fragments ==
    {<<"a">>, <<" ">>, <<"\n">>, ChapterLine, SectionLine, ListMark, BoldWord, ColorOne}

Inputs == Texts(Fragments, MaxFrags) \cup {Intro}

(***************************************************************************)
(* Build.  InitWith(T): Build has read a text of T and made the lexer over *)
(* it, with "%" doubled; config is the caller's.                           *)
(***************************************************************************)
InitWith(T) ==
    /\ src \in T
    /\ l = lex(Replace(src, "%", <<"%", "%">>))
    /\ asm = NewAsm
    /\ heap = <<>>
    /\ document = NewDocument
    /\ b \in {NewBuilder([TableOfContents |-> toc]) : toc \in BOOLEAN}
    /\ work = <<>>
    /\ at = 1
    /\ pc = "lex"
    /\ result = "none"
    /\ written = <<>>
    /\ recv = <<>>

Init == InitWith(Inputs)

\* nextItem, default case: l.state = l.state(l), one pass of the state's loop
LexStep ==
    /\ pc = "lex"
    /\ ~l.blocked
    /\ l.inLoop \/ l.items = <<>>
    /\ IF l.state = nilState
       THEN /\ pc' = "done"
            /\ result' = "panic"
            /\ l' = l
       ELSE /\ l' = RunState(l)
            /\ UNCHANGED <<pc, result>>
    /\ UNCHANGED <<src, asm, heap, document, b, work, at, written, recv>>

\* nextItem returns the oldest item of the channel; Build's loop handles it
RecvItem ==
    /\ pc = "lex"
    /\ ~l.blocked
    /\ ~l.inLoop
    /\ l.items # <<>>
    /\ LET it == Head(l.items)
           r == AsmItem(asm, heap, document, it)
           over == it.typ \in {"EOF", "Error"}
       IN  /\ l' = [l EXCEPT !.items = Tail(@)]
           /\ recv' = Append(recv, it)
           /\ asm' = IF over THEN asm ELSE r.asm
           /\ heap' = IF over THEN heap ELSE r.heap
           /\ document' = IF over THEN document ELSE r.document
           /\ pc' = IF it.typ = "EOF" THEN "build" ELSE IF it.typ = "Error" THEN "done" ELSE pc
           /\ result' = IF it.typ = "Error" THEN "lexerror" ELSE result
    /\ UNCHANGED <<src, b, work, at, written>>

\* builder := Builder{Config: config}; Builder.Build up to its loops
BuilderBuild ==
    /\ pc = "build"
    /\ b' = BuildHead(NewBuilder(b.Config), heap, document)
    /\ work' = Walk(heap, document)
    /\ at' = 1
    /\ pc' = "walk"
    /\ UNCHANGED <<src, l, asm, heap, document, result, written, recv>>

\* one step of Builder.Build's loops; a panic ends Build
BuildWalk ==
    /\ pc = "walk"
    /\ at <= Len(work)
    /\ b' = BuildStep(b, work[at])
    /\ at' = IF b'.panicked THEN at ELSE at + 1
    /\ pc' = IF b'.panicked THEN "done" ELSE pc
    /\ result' = IF b'.panicked THEN "panic" ELSE result
    /\ UNCHANGED <<src, l, asm, heap, document, work, written, recv>>

\* Builder.Build returns; w.Write(out) takes all of it or fails
Write ==
    /\ pc = "walk"
    /\ at > Len(work)
    /\ \E ok \in BOOLEAN :
          /\ written' = IF ok /\ b.err = "nil" THEN b.content ELSE <<>>
          /\ result' = IF ok /\ b.err = "nil" THEN "ok" ELSE "ioerror"
    /\ pc' = "done"
    /\ UNCHANGED <<src, l, asm, heap, document, b, work, at, recv>>

Next == LexStep \/ RecvItem \/ BuilderBuild \/ BuildWalk \/ Write

Spec == Init /\ [][Next]_vars

(***************************************************************************)
(* What the claims speak of.                                               *)
(***************************************************************************)
\* Build completed: the lexer reached end-of-input and Builder.Build returned
Completed == pc = "done" /\ result \in {"ok", "ioerror"}

CountBy(c, by) == Cardinality({i \in 1..Len(c) : c[i].by = by})

IsHeading(e) ==
    \/ e.by \in {"h2", "h3"}
    \/ e.fmt = "<h2><a name='%s'></a>Annexe %v: %s</h2>\n"

\* a paragraph is open in output c just before its i-th string
ParagraphOpenBefore(c, i) ==
    LET ps == {j \in 1..(i - 1) : c[j].by \in {"openParagraph", "closeParagraph"}}
    IN  /\ ps # {}
        /\ c[CHOOSE j \in ps : \A k \in ps : k <= j].by = "openParagraph"

Last(s) == s[Len(s)]

Contains(s, pat) ==
    \E i \in 0..(Len(s) - Len(pat)) : SubSeq(s, i + 1, i + Len(pat)) = pat

NoTrigger(s) ==
    /\ \A i \in 1..Len(s) : s[i] \notin {"#", "\n", "*", "[", "\\"}
    /\ ~Contains(s, annex)
    /\ ~Contains(s, table)
    /\ ~Contains(s, emSymbol)

\* C3: on every input on which Build completes, the output holds as many
\* list openings (by ListOpen items) as list closings (by ListClose items).
C3_ListsBalanced ==
    Completed => CountBy(b.content, "ListOpen") = CountBy(b.content, "ListClose")

\* C4: on every input on which Build completes, no paragraph is open in the
\* output where a table, a list or a heading starts, nor at its end.
C4_ParagraphClosedBeforeBlocks ==
    Completed =>
        /\ \A i \in 1..Len(b.content) :
              (IsHeading(b.content[i]) \/ b.content[i].by \in {"TableStart", "ListOpen"})
                  => ~ParagraphOpenBefore(b.content, i)
        /\ ~ParagraphOpenBefore(b.content, Len(b.content) + 1)

\* C5: for an input without any trigger, Build without table of contents
\* outputs exactly one paragraph that holds the trimmed input (stated for the
\* inputs that have some text to hold after trimming).
C5_PlainTextIsOneParagraph ==
    (Completed /\ NoTrigger(src) /\ TrimSpace(src) # <<>> /\ ~b.Config.TableOfContents) =>
        /\ Len(b.content) = 3
        /\ b.content[1].by = "openParagraph"
        /\ b.content[2].by = "Text" /\ b.content[2].args = <<TrimSpace(src)>>
        /\ b.content[3].by = "closeParagraph"

\* the chapter headings of output c, in order
RECURSIVE ChapterHeadings(_)
ChapterHeadings(c) ==
    IF c = <<>> THEN <<>>
    ELSE (IF Head(c).by = "h2" THEN <<Head(c)>> ELSE <<>>) \o ChapterHeadings(Tail(c))

IntroOutput ==
    <<Out("<h2><a id='%s'></a>%s - %s</h2>\n",
          <<<<"i", "n", "t", "r", "o">>, <<"I">>, <<"I", "n", "t", "r", "o">>>>, "h2"),
      Out("<p class='indent'>\n", <<>>, "openParagraph"),
      Out("it.val", <<<<"H", "e", "l", "l", "o", " ">>>>, "Text"),
      Out("<strong>%s</strong>", <<<<"w", "o", "r", "l", "d">>>>, "Bold"),
      Out("it.val", <<<<".">>>>, "Text"),
      Out("\n</p>\n", <<>>, "closeParagraph")>>

\* C8: the k-th chapter heading of the output is labelled with the Roman
\* numeral of k (I for the first), and "#Intro\nHello *world*.\n" without
\* table of contents gives the heading labelled I and one paragraph.
C8_ChaptersNumberedFromOne ==
    Completed =>
        /\ LET hs == ChapterHeadings(b.content)
           IN  /\ \A k \in 1..Len(hs) : hs[k].args[2] = toRoman(k)
               /\ hs # <<>> => hs[1].args[2] = <<"I">>
        /\ (src = Intro /\ ~b.Config.TableOfContents) => b.content = IntroOutput

\* C9: Builder.Build handles every item the lexer can produce without
\* aborting; Build fails only when the lexer or the sink does.
C9_RenderNeverAborts == result # "panic"

(***************************************************************************)
(* Unterminated constructs.  Build is one goroutine that runs whenever it  *)
(* can: weak fairness of Next.                                             *)
(***************************************************************************)
TableMark == table
CommandOpen == <<"\\", "c", "(">>

OpenFragments ==
    {<<"a">>, <<"\n">>, <<"*">>, emSymbol, <<"[">>, TableMark, CommandOpen, <<")">>,
     ChapterLine}

InitOpen == InitWith(Texts(OpenFragments, MaxOpen))

SpecOpen == InitOpen /\ [][Next]_vars /\ WF_vars(Next)

\* the lexer produced its last item
LexerEnded == \E i \in 1..Len(recv) : recv[i].typ \in {"EOF", "Error"}

\* C1: on every input, repeated nextItem calls reach an EndOfInput or a
\* LexError item after finitely many steps of the state functions.
C1_LexerTerminates == <>LexerEnded

\* the lexer is scanning a command's arguments and no ")" is left to find
UnclosedCommand ==
    /\ pc = "lex"
    /\ l.state.f = "lexCmdArgs"
    /\ \A i \in (l.pos + 1)..Len(l.input) : l.input[i] # ")"

LineOfEnd(s) == 1 + Cardinality({i \in 1..Len(s) : s[i] = "\n"})

\* C2: a command whose argument list is never closed ends in a LexError item
\* with the line the input ends on; Build returns the error, writes nothing.
C2_UnclosedCommandIsLexError ==
    UnclosedCommand ~>
        /\ result = "lexerror"
        /\ written = <<>>
        /\ Last(recv).typ = "Error"
        /\ Last(recv).line = LineOfEnd(l.input)

(***************************************************************************)
(* Documents: texts of at most MaxLines heading lines and words.           *)
(***************************************************************************)
DocFragments == {ChapterLine, SectionLine, AnnexLine, <<"b">>}

InitDoc == InitWith(Texts(DocFragments, MaxLines))

SpecDoc == InitDoc /\ [][Next]_vars

IsBoundary(it) == it.typ \in {"Chapter", "Section", "Annex"}

\* the sections of the tree, wherever they hang
AllSections ==
    Elems(heap, document.Sections)
    \o Flatten([i \in 1..document.Chapters.len |->
                    Elems(heap, Elems(heap, document.Chapters)[i].Sections)])

RECURSIVE SumLen(_)
SumLen(ss) == IF ss = <<>> THEN 0 ELSE Len(Head(ss).Items) + SumLen(Tail(ss))

\* the number of items stored in some chapter, or in a section under one
ChapterItemCount ==
    LET chs == Elems(heap, document.Chapters)
    IN  SumLen(chs) + SumLen(Flatten([i \in 1..Len(chs) |-> Elems(heap, chs[i].Sections)]))

\* the last chapter or annex heading received was an annex heading
Detached ==
    LET hs == {i \in 1..Len(recv) : recv[i].typ \in {"Chapter", "Annex"}}
    IN  /\ hs # {}
        /\ recv[CHOOSE i \in hs : \A j \in hs : j <= i].typ = "Annex"

\* C6: from an annex heading to the next chapter heading nothing is stored
\* in a chapter, neither in its items nor in a section under it.
C6_AnnexDetachesChapter == [][Detached => ChapterItemCount' = ChapterItemCount]_vars

\* the items received after the boundary at k of recv (0: the start) and
\* before the next boundary, without the item that ended the input
RECURSIVE Run(_, _)
Run(its, k) ==
    IF k > Len(its) \/ IsBoundary(its[k]) \/ its[k].typ \in {"EOF", "Error"} THEN <<>>
    ELSE <<its[k]>> \o Run(its, k + 1)

\* the places in recv of the items of type t, in order
RECURSIVE Places(_, _, _)
Places(its, t, k) ==
    IF k > Len(its) THEN <<>>
    ELSE (IF its[k].typ = t THEN <<k>> ELSE <<>>) \o Places(its, t, k + 1)

Holds(c, its, k) == c.Title = its[k].val /\ c.Items = Run(its, k + 1)

StoredCount ==
    Len(document.Items) + SumLen(Elems(heap, document.Chapters))
    + SumLen(AllSections) + SumLen(Elems(heap, document.Annexes))

\* C7: every item received that is no boundary is stored once, in order, in
\* the container its last boundary selects: the document's items before any
\* heading, the k-th chapter's, annex's or the section's made by the heading;
\* the tree stores as many items as were received.
C7_EveryItemInItsContainer ==
    LET chs == Elems(heap, document.Chapters)
        ans == Elems(heap, document.Annexes)
        cp == Places(recv, "Chapter", 1)
        ap == Places(recv, "Annex", 1)
        sp == Places(recv, "Section", 1)
    IN  /\ document.Items = Run(recv, 1)
        /\ Len(chs) = Len(cp) /\ \A k \in 1..Len(cp) : Holds(chs[k], recv, cp[k])
        /\ Len(ans) = Len(ap) /\ \A k \in 1..Len(ap) : Holds(ans[k], recv, ap[k])
        /\ Len(AllSections) = Len(sp)
        /\ \A k \in 1..Len(sp) : \E j \in 1..Len(AllSections) : Holds(AllSections[j], recv, sp[k])
        /\ StoredCount =
              Cardinality({i \in 1..Len(recv) :
                              ~IsBoundary(recv[i]) /\ recv[i].typ \notin {"EOF", "Error"}})

\* three chapters were stored one after the other, the first with two sections
C7_Witness ==
    /\ pc = "done"
    /\ document.Chapters.len >= 3
    /\ Elems(heap, document.Chapters)[1].Sections.len >= 2
    /\ Len(heap) >= 4
    /\ StoredCount >= 4

(***************************************************************************)
(* Tables: a chapter holding one or two tables of at most MaxRows rows of  *)
(* at most MaxCells cells each.                                            *)
(***************************************************************************)
RowLine(n) == Join([i \in 1..n |-> IF i = 1 THEN <<"a">> ELSE <<"c">>], <<"|">>) \o <<"\n">>

TableText(title, ns) ==
    table \o title \o <<"\n">> \o Flatten([i \in 1..Len(ns) |-> RowLine(ns[i])]) \o table

RowShapes == SeqsUpTo(1..MaxCells, MaxRows)

TableInputs ==
    {ChapterLine \o TableText(<<"T">>, r1) \o mid \o second :
        r1 \in RowShapes, mid \in {<<>>, SectionLine},
        second \in {<<>>} \cup {TableText(<<"U">>, r2) : r2 \in RowShapes}}

InitTable == InitWith(TableInputs)

SpecTable == InitTable /\ [][Next]_vars

IsItem(st, t) == st.op = "item" /\ st.it.typ = t

\* Builder.Build is about to handle a TableRow item
AtTableRow == pc = "walk" /\ at <= Len(work) /\ IsItem(work[at], "TableRow")

\* the TableStart step of the table the step at k belongs to
TableOf(k) == CHOOSE j \in 1..k : IsItem(work[j], "TableStart")
                                  /\ \A i \in (j + 1)..k : ~IsItem(work[i], "TableStart")

\* the step at k is the first TableRow of its table
FirstRow(k) == \A i \in (TableOf(k) + 1)..(k - 1) : ~IsItem(work[i], "TableRow")

HeaderBlock(title, n) ==
    <<Out("<thead>\n", <<>>, "TableRow"),
      Out("<tr>\n", <<>>, "TableRow"),
      Out("<th colspan='%v'>%s</th>\n", <<Itoa(n), title>>, "TableRow"),
      Out("</tr>\n", <<>>, "TableRow"),
      Out("</thead>\n", <<>>, "TableRow"),
      Out("<tbody>\n", <<>>, "TableRow")>>

DataRow(cells, first) ==
    <<Out("<tr>\n", <<>>, "TableRow")>>
    \o [i \in 1..Len(cells) |->
            Out(IF i = 1 \/ first THEN "<td class='head'>%s</td>\n"
                ELSE "<td class='lead'>%s</td>\n", <<cells[i]>>, "TableRow")]
    \o <<Out("</tr>\n", <<>>, "TableRow")>>

CountFmt(c, f) == Cardinality({i \in 1..Len(c) : c[i].fmt = f})

\* the tables Builder.Build visits that have a row
TablesWithRows ==
    {k \in 1..(Len(work) - 1) : IsItem(work[k], "TableStart") /\ IsItem(work[k + 1], "TableRow")}

ItemLine == ListMark \o <<"a">>
EmWord == <<"_", "_", "e", "_", "_">>

ListFragments == {ChapterLine, ItemLine, ListMark, <<"\n">>, BoldWord, EmWord}

InitList == InitWith(Texts(ListFragments, MaxList))

SpecList == InitList /\ [][Next]_vars

CountTyp(its, t) == Cardinality({i \in 1..Len(its) : its[i].typ = t})

\* the input holds one list, closed by a newline
OneClosedList == CountTyp(recv, "ListOpen") = 1 /\ CountTyp(recv, "ListClose") = 1

\* in output c every <li> wraps exactly one paragraph: up to its </li> one
\* paragraph is opened, then closed
OneParagraphPerItem(c) ==
    \A i \in 1..Len(c) :
        c[i].by = "StartListElement" =>
            \E j \in (i + 1)..Len(c) :
                /\ c[j].by = "EndListElement"
                /\ \A k \in (i + 1)..(j - 1) : c[k].by # "EndListElement"
                /\ LET ps == {k \in (i + 1)..(j - 1) :
                                 c[k].by \in {"openParagraph", "closeParagraph"}}
                   IN  /\ Cardinality(ps) = 2
                       /\ \A k \in ps : (c[k].by = "openParagraph") =
                                        (\A m \in ps : k <= m)

\* C11: an input with one list of n marked lines closed by a newline is
\* rendered with exactly one <ol class='roman'>, exactly n <li>, each of
\* them wrapping exactly one paragraph, and one </ol>.
C11_ListRenderedOnce ==
    (Completed /\ OneClosedList) =>
        /\ CountBy(b.content, "ListOpen") = 1
        /\ CountBy(b.content, "StartListElement") = CountTyp(recv, "StartListElement")
        /\ CountBy(b.content, "EndListElement") = CountTyp(recv, "StartListElement")
        /\ CountBy(b.content, "ListClose") = 1
        /\ OneParagraphPerItem(b.content)

\* the same, for a list that stands under a chapter heading
ListUnderChapter ==
    \E i, j \in 1..Len(recv) :
        i < j /\ recv[i].typ = "Chapter" /\ recv[j].typ = "ListOpen"

ListUnderChapterRenderedOnce == ListUnderChapter => C11_ListRenderedOnce


(***************************************************************************)
(* Lines: texts of newlines, list markers and the words the lexer jumps    *)
(* over or backs up at.                                                    *)
(***************************************************************************)
LineFragments == {<<"a">>, <<"\n">>, <<"*">>, <<"#">>, annex, table, ListMark}

InitLine == InitWith(Texts(LineFragments, MaxLex))

SpecLine == InitLine /\ [][Next]_vars

Newlines(s) == Cardinality({i \in 1..Len(s) : s[i] = "\n"})

\* the line counter agrees with the position: 1 + the newlines of input[0:pos]
LineAgrees(lx, pos, line) == line = 1 + Newlines(SubSeq(lx.input, 1, pos))

\* C12: after every next(), backup() and position jump the lexer states have
\* performed, and after a peek() (next() then backup(), across a newline
\* when one is ahead) at any point of the run, line = 1 + the number of
\* newlines in input[0:pos]; a backup() after the next() that found the end
\* of the input changes nothing.
C12_LineCounterConsistent ==
    /\ \A pr \in peek(l).seen : LineAgrees(l, pr[1], pr[2])
    /\ l.pos >= Len(l.input) => /\ backup(next(l)).pos = l.pos
                                /\ backup(next(l)).line = l.line

\* a table title was jumped into, the lexer is past a newline and the next
\* rune is another one, which peek() reads and backs up across
C12_Witness ==
    /\ pc = "lex"
    /\ CountTyp(recv, "TableStart") = 1
    /\ l.line >= 2
    /\ nextRune(l) = "\n"
    /\ <<l.pos + 1, l.line + 1>> \in peek(l).seen
    /\ Cardinality(l.seen) >= 3


\* a state function is about to run (nextItem found the channel empty, or
\* the function is inside its loop)
LexRuns == pc = "lex" /\ ~l.blocked /\ (l.inLoop \/ l.items = <<>>)

\* lexListItem is at the end of the input
EndInItem == LexRuns /\ l.state = Plain("lexListItem") /\ l.pos >= Len(l.input)

\* the last list item its has started is not ended
OpenItem(its) ==
    \E i \in 1..Len(its) :
        /\ its[i].typ = "StartListElement"
        /\ \A j \in (i + 1)..Len(its) : its[j].typ \notin {"EndListElement", "ListClose"}

\* lexText is at the end of the input, inside a list item
EndAfterItem ==
    LexRuns /\ l.state = Plain("lexText") /\ l.pos >= Len(l.input) /\ OpenItem(recv)

\* C13: when the input ends inside a list item, lexListItem returns to the
\* text state emitting nothing (no EndListElement, no ListClose), the text
\* state then emits the pending item text, trimmed, as a Text item followed
\* by EOF and stops; no Error item is ever emitted.
C13_InputEndsInsideItem ==
    /\ [][EndInItem => /\ l'.state = Plain("lexText")
                       /\ l'.items = l.items
                       /\ l'.pos = l.pos /\ l'.start = l.start
                       /\ ~l'.blocked]_vars
    /\ [][EndAfterItem =>
            /\ l'.items = (IF l.pos > l.start
                           THEN <<Item("Text", TrimSpace(Slice(l)), l.line)>>
                           ELSE <<>>) \o <<Item("EOF", <<>>, l.line)>>
            /\ l'.state = nilState]_vars
    /\ [](OpenItem(recv) => CountTyp(recv, "Error") = 0)

\* the lexer has ended on an input whose last list item was not closed, its
\* text the last item before EOF
C13_Witness ==
    /\ LexerEnded
    /\ OpenItem(recv)
    /\ Len(recv) >= 4
    /\ recv[Len(recv)].typ = "EOF"
    /\ recv[Len(recv) - 1] = Item("Text", <<"a">>, recv[Len(recv)].line)
    /\ recv[Len(recv) - 2].typ = "StartListElement"


\* every item the lexer has sent so far, in the order of the sends
Emitted == recv \o l.items

ListTokens == {"ListOpen", "StartListElement", "EndListElement", "ListClose"}

\* the type of the last list token of its before position i, "none" without one
ListTokenBefore(its, i) ==
    LET ks == {k \in 1..(i - 1) : its[k].typ \in ListTokens}
    IN  IF ks = {} THEN "none"
        ELSE its[CHOOSE k \in ks : \A m \in ks : m <= k].typ

WellOrdered(its) ==
    \A i \in 1..Len(its) :
        LET t == its[i].typ
            before == ListTokenBefore(its, i)
        IN  /\ t = "ListOpen" =>
                /\ before \in {"none", "ListClose"}
                /\ i < Len(its) /\ its[i + 1].typ = "StartListElement"
            /\ t = "StartListElement" =>
                /\ before \in {"ListOpen", "EndListElement"}
                /\ its[i - 1].typ = before
            /\ t = "EndListElement" =>
                /\ before = "StartListElement"
                /\ i < Len(its)
                /\ its[i + 1].typ \in {"StartListElement", "ListClose"}
            /\ t = "ListClose" =>
                /\ i > 1 /\ its[i - 1].typ = "EndListElement"
            /\ (t \notin ListTokens /\ before = "StartListElement") =>
                \/ t \in {"Text", "Bold", "Em"}
                \/ t = "EOF" /\ i = Len(its)

\* C14: in the item stream every ListOpen is immediately followed by
\* StartListElement, every ListClose immediately preceded by EndListElement,
\* StartListElement and EndListElement alternate from a StartListElement on,
\* an EndListElement is immediately followed by the sibling's
\* StartListElement or by ListClose, and inside an item only Text, Bold and
\* Em items occur (the input may end there).
C14_ListTokensWellOrdered == WellOrdered(Emitted)

\* a closed list of two items, the second holding a bold word
C14_Witness ==
    /\ LexerEnded
    /\ CountTyp(recv, "StartListElement") = 2
    /\ CountTyp(recv, "EndListElement") = 2
    /\ CountTyp(recv, "Bold") = 1
    /\ CountTyp(recv, "ListClose") = 1
    /\ \E i \in 1..Len(recv) :
           recv[i].typ = "Bold" /\ ListTokenBefore(recv, i) = "StartListElement"


\* paragraphs opened minus paragraphs closed in output c
ParagraphDepth(c) == CountBy(c, "openParagraph") - CountBy(c, "closeParagraph")

\* C15: whatever items the emitter has handled, the paragraphs it has
\* opened minus the "</p>" it has appended is 1 when paragraphIsOpen and 0
\* when not, and was 0 or 1 after every string of the output; closeParagraph
\* on a closed paragraph and openParagraph on an open one append nothing.
C15_ParagraphsNeverNest ==
    /\ ParagraphDepth(b.content) = IF b.paragraphIsOpen THEN 1 ELSE 0
    /\ \A n \in 0..Len(b.content) : ParagraphDepth(SubSeq(b.content, 1, n)) \in {0, 1}
    /\ ~b.paragraphIsOpen => closeParagraph(b) = b
    /\ b.paragraphIsOpen => openParagraph(b).content = b.content

\* a NewLine was handled with no paragraph open and appended no "</p>"; a
\* paragraph is open now and the next item, a Bold, asks to open one
C15_Witness ==
    /\ pc = "walk" /\ at <= Len(work)
    /\ IsItem(work[at], "Bold")
    /\ b.paragraphIsOpen
    /\ \E k \in 1..(at - 1) : IsItem(work[k], "NewLine")
    /\ CountBy(b.content, "closeParagraph") = 0
    /\ CountBy(b.content, "openParagraph") = 1


(***************************************************************************)
(* Order: documents of at most MaxHeads heading lines, the i-th one a      *)
(* chapter, section or annex line with title i, followed by the text i.    *)
(***************************************************************************)
HeadMarks == {chapter, section, annex}

HeadLine(mark, i) == mark \o <<Digits[i + 1], "\n", Digits[i + 1]>>

OrderInputs ==
    {Flatten([i \in 1..Len(ms) |-> HeadLine(ms[i], i)]) : ms \in SeqsUpTo(HeadMarks, MaxHeads)}

InitOrder == InitWith(OrderInputs)

SpecOrder == InitOrder /\ [][Next]_vars

\* the headings and texts of output c, in order: <<kind, title or text>>
IsLandmark(e) == IsHeading(e) \/ e.by = "Text"

Landmark(e) ==
    IF e.by = "h3" THEN <<"section", e.args[2]>>
    ELSE IF e.by = "h2" THEN <<"chapter", e.args[3]>>
    ELSE IF e.by = "Text" THEN <<"text", e.args[1]>>
    ELSE <<"annex", e.args[3]>>

Landmarks(c) == LET ls == SelectSeq(c, IsLandmark) IN [i \in 1..Len(ls) |-> Landmark(ls[i])]

\* the same for the document: what the claimed order makes of the tree
IsShownText(it) == it.typ = "Text" /\ it.val # <<>>

TextMarks(items) ==
    LET ts == SelectSeq(items, IsShownText) IN [i \in 1..Len(ts) |-> <<"text", ts[i].val>>]

SectionMarks(ss) ==
    Flatten([i \in 1..Len(ss) |-> <<<<"section", ss[i].Title>>>> \o TextMarks(ss[i].Items)])

ChapterMarks(cs) ==
    Flatten([i \in 1..Len(cs) |->
                <<<<"chapter", cs[i].Title>>>> \o TextMarks(cs[i].Items)
                \o SectionMarks(Elems(heap, cs[i].Sections))])

AnnexMarks(as) ==
    Flatten([i \in 1..Len(as) |-> <<<<"annex", as[i].Title>>>> \o TextMarks(as[i].Items)])

\* the source line a title was read from
LineNo(title) == CHOOSE i \in 1..9 : title = <<Digits[i + 1]>>

InSourceOrder(cs) == \A i, j \in 1..Len(cs) : i < j => LineNo(cs[i].Title) < LineNo(cs[j].Title)

TocFirst ==
    /\ b.Config.TableOfContents = (CountBy(b.content, "toc") > 0)
    /\ \A i, j \in 1..Len(b.content) :
           (b.content[i].by = "toc" /\ b.content[j].by # "toc") => i < j

\* C16: the output holds the table of contents first, if and only if it is
\* configured; then every top-level section, then every chapter (heading,
\* own items, nested sections), then every annex, each group in source
\* order, wherever the annexes stood between the chapters in the source.
C16_RenderingOrder ==
    Completed =>
        /\ TocFirst
        /\ Landmarks(b.content) =
               SectionMarks(Elems(heap, document.Sections))
               \o ChapterMarks(Elems(heap, document.Chapters))
               \o AnnexMarks(Elems(heap, document.Annexes))
        /\ InSourceOrder(Elems(heap, document.Sections))
        /\ InSourceOrder(Elems(heap, document.Chapters))
        /\ InSourceOrder(Elems(heap, document.Annexes))
        /\ \A i \in 1..document.Chapters.len :
               InSourceOrder(Elems(heap, Elems(heap, document.Chapters)[i].Sections))

\* a section, a chapter, an annex, a chapter, rendered with the table of
\* contents: the annex stood between the chapters and is rendered last
C16_Witness ==
    /\ Completed
    /\ b.Config.TableOfContents
    /\ document.Sections.len = 1 /\ document.Chapters.len = 2 /\ document.Annexes.len = 1
    /\ LineNo(Elems(heap, document.Annexes)[1].Title) = 3
    /\ Landmarks(b.content)[Len(Landmarks(b.content))] = <<"text", <<"3">>>>


\* C17: the lexer never sends a Text item with empty text immediately
\* before a Bold, Command or Link item (the pending text is flushed before
\* the trigger only when there is some).
C17_NoEmptyTextBeforeTrigger ==
    \A i \in 1..(Len(Emitted) - 1) :
        Emitted[i + 1].typ \in {"Bold", "Command", "Link"} =>
            ~(Emitted[i].typ = "Text" /\ Emitted[i].val = <<>>)


IsPrefix(s, t) == Len(s) <= Len(t) /\ SubSeq(t, 1, Len(s)) = s

\* C18: no send of the lexer finds the channel full: a state function is
\* run only when the channel is empty and sends at most ItemsCap items
\* before it returns; nextItem returns the items in the order of the sends.
C18_LexerNeverBlocks ==
    /\ [](~l.blocked /\ Len(l.items) <= ItemsCap)
    /\ [][(l' # l /\ recv' = recv) =>
            /\ l.inLoop \/ l.items = <<>>
            /\ IsPrefix(l.items, l'.items)]_vars
    /\ [][recv' # recv =>
            /\ l.items # <<>>
            /\ recv' = Append(recv, Head(l.items))
            /\ l'.items = Tail(l.items)]_vars

\* one run of lexText has filled the channel: the pending text, ListOpen
\* and StartListElement
C18_Witness ==
    /\ pc = "lex"
    /\ Len(l.items) = ItemsCap
    /\ l.items[1].typ = "Text"
    /\ l.items[3].typ = "StartListElement"
    /\ ~l.blocked


(***************************************************************************)
(* Percent signs: in plain text, in a bold word and in a chapter title.    *)
(***************************************************************************)
BoldPercent == <<"*", "%", "*">>
PercentTitle == <<"#", "%", "\n">>

PercentFragments == {<<"%">>, <<"a">>, <<"\n">>, ChapterLine, PercentTitle, BoldPercent}

InitPercent == InitWith(Texts(PercentFragments, MaxFrags))

SpecPercent == InitPercent /\ [][Next]_vars

\* the text the input had where the lexer's (pre-escaped) input has s
RECURSIVE Unescape(_)
Unescape(s) ==
    IF s = <<>> THEN <<>>
    ELSE IF Len(s) >= 2 /\ s[1] = "%" /\ s[2] = "%" THEN <<"%">> \o Unescape(Tail(Tail(s)))
    ELSE <<Head(s)>> \o Unescape(Tail(s))

AtStep == pc = "walk" /\ at <= Len(work)

\* C19: whichever item carries it (plain Text, Bold, Em, a chapter title),
\* the text the emitter puts into the output is the text of the input,
\* every "%" of it once, none taken as a format directive.
C19_PercentRoundTrips ==
    /\ [][(AtStep /\ work[at].op = "item" /\ work[at].it.typ \in {"Text", "Bold", "Em"}
                  /\ work[at].it.val # <<>>) =>
            Last(b'.content).args = <<Unescape(work[at].it.val)>>]_vars
    /\ [][(AtStep /\ work[at].op = "h2") =>
            Last(b'.content).args[3] = Unescape(work[at].title)]_vars


\* in output c the i-th string, a "</tbody>", closes a "<tbody>" of its own
\* table: one stands between the last "<table>" and it
BodyOpened(c, i) ==
    \E j \in 1..(i - 1) :
        /\ c[j].fmt = "<tbody>\n"
        /\ \A k \in j..(i - 1) : c[k].fmt \notin {"<table>\n", "</tbody>\n"}

\* C20: in the output of every input on which Build completes, tables with
\* no row included, every "<table>" is followed by exactly one "</table>"
\* before the next "<table>", and every "</tbody>" closes a "<tbody>".
C20_TableMarkupBalanced ==
    Completed =>
        /\ CountFmt(b.content, "<table>\n") = CountFmt(b.content, "</table>\n")
        /\ \A i \in 1..Len(b.content) :
               b.content[i].fmt = "<table>\n" =>
                   \E j \in (i + 1)..Len(b.content) :
                       /\ b.content[j].fmt = "</table>\n"
                       /\ \A k \in (i + 1)..(j - 1) :
                              b.content[k].fmt \notin {"<table>\n", "</table>\n"}
        /\ \A i \in 1..Len(b.content) :
               b.content[i].fmt = "</tbody>\n" => BodyOpened(b.content, i)

====
